---- MODULE Spec2Model ----
(***************************************************************************)
(* Paletted data containers of craft-rs (level/src/palette.rs):            *)
(* BiomePaletteContainer<N> and StatePaletteContainer<N>, their palettes   *)
(* (SingleValuePalette, LinearPalette, MappedPalette) and the bit-packed   *)
(* index array PackedBits<N> they store their indices in.                  *)
(*                                                                         *)
(* A container is a record                                                 *)
(*   variant  "SingleValue" | "Linear" | "Mapped" | "Global"               *)
(*   single   the value of a SingleValuePalette                            *)
(*   bits     LinearPalette.bits                                           *)
(*   values   LinearPalette.values (a Vec: index k is values[k + 1])       *)
(*   cap      values.capacity()                                            *)
(*   indices  MappedPalette.indices (a BTreeMap: a set of <<key, index>>)  *)
(*   data     the PackedBits: [bits, entries], entries over 0 .. N-1       *)
(* Fields a variant does not have are kept at their empty value.           *)
(***************************************************************************)
EXTENDS Integers, Sequences, FiniteSets, TLC

\* The const generic N of both containers: the number of entries.
N == 2
\* The long run of a state container (SpecChain) is handed values 0 .. MaxVal,
\* and sets again only a value among the Recent last introduced.
MaxVal == 33
Recent == 2
\* A biome container built by new() is handed values 0 .. MaxValBiome.
MaxValBiome == 8
\* Every other container is handed values 0 .. MaxValShort.
MaxValShort == 2
\* with_bits is called with bits in 0 .. MaxBits.
MaxBits == 10
MaxSetBits == 2
MaxSlots == 2
MaxCursor == 29
MaxReallocs == 2
MaxRun == 2
MaxEntry == 1

Slots == 0 .. (N - 1)

\* What a call that panicked returns.
Panicked == -1

Pow2(b) == 2 ^ b

(***************************************************************************)
(* PackedBits<N> (crate::bitpack)                                          *)
(***************************************************************************)

\* PackedBits::new(b) and new_unchecked(b): N entries of b bits, all zero.
PackedNew(b) == [bits |-> b, entries |-> [j \in Slots |-> 0]]

\* PackedBits::get_unchecked(i): entry i; 0 when the width is 0.
PackedGet(d, i) == IF d.bits = 0 THEN 0 ELSE d.entries[i]

\* PackedBits::set(i, v) and set_unchecked(i, v): v masked to the width.
PackedSet(d, i, v) == [d EXCEPT !.entries[i] = v % Pow2(d.bits)]

\* PackedBits::change_bits(b): entries are b bits wide and all zero.
PackedChangeBits(d, b) == [bits |-> b, entries |-> [j \in Slots |-> 0]]

(***************************************************************************)
(* Palettes                                                                *)
(***************************************************************************)

NoValues == << >>
NoIndices == {}

\* Vec::reserve_exact(additional): the capacity afterwards.
ReserveExact(len, cap, additional) ==
    IF cap >= len + additional THEN cap ELSE len + additional

\* IndexOrBits, together with the palette as index() left it.
Index(k, vals, inds) == [tag |-> "Index", n |-> k, values |-> vals, indices |-> inds]
Bits(b, vals, inds) == [tag |-> "Bits", n |-> b, values |-> vals, indices |-> inds]

\* SingleValuePalette::index that never finds its value.
SingleIndexNever(u, v) == Bits(1, NoValues, NoIndices)

\* SingleValuePalette::index
SingleIndex(u, v) ==
    IF u = v THEN Index(0, NoValues, NoIndices) ELSE Bits(1, NoValues, NoIndices)

\* The first position (from 0) of v in vals, or Len(vals) when absent.
RECURSIVE Position(_, _, _)
Position(vals, v, k) ==
    IF k >= Len(vals) THEN Len(vals)
    ELSE IF vals[k + 1] = v THEN k
    ELSE Position(vals, v, k + 1)

\* LinearPalette::index that reports the length after the push.
LinearIndexAfterPush(c, v) ==
    LET len == Len(c.values)
        pos == Position(c.values, v, 0)
    IN  IF pos < len THEN Index(pos, c.values, c.indices)
        ELSE IF c.cap > len THEN Index(len + 1, Append(c.values, v), c.indices)
        ELSE Bits(c.bits + 1, c.values, c.indices)

\* LinearPalette::index
LinearIndex(c, v) ==
    LET len == Len(c.values)
        pos == Position(c.values, v, 0)
    IN  IF pos < len THEN Index(pos, c.values, c.indices)
        ELSE IF c.cap > len THEN Index(len, Append(c.values, v), c.indices)
        ELSE Bits(c.bits + 1, c.values, c.indices)

\* LinearPalette::value: values[index], a panic past the end.
LinearValue(c, k) == IF k < Len(c.values) THEN c.values[k + 1] ELSE Panicked

\* The index the side map records for a value pushed when the list held len.
MappedRecorded(len) == len + 1

\* MappedPalette::index
MappedIndex(c, v) ==
    LET hit == {e \in c.indices : e[1] = v}
        len == Len(c.values)
    IN  IF hit # {} THEN Index((CHOOSE e \in hit : TRUE)[2], c.values, c.indices)
        ELSE IF c.cap > len
             THEN Index(len, Append(c.values, v),
                        c.indices \cup {<<v, MappedRecorded(len)>>})
             ELSE Bits(c.bits + 1, c.values, c.indices)

\* MappedPalette::value
MappedValue(c, k) == LinearValue(c, k)

(***************************************************************************)
(* Containers                                                              *)
(***************************************************************************)

Container(var, u, b, vals, cp, inds, d) ==
    [variant |-> var, single |-> u, bits |-> b, values |-> vals, cap |-> cp,
     indices |-> inds, data |-> d]

\* BiomePaletteContainer::new and StatePaletteContainer::new
New(v) == Container("SingleValue", v, 0, NoValues, 0, NoIndices, PackedNew(0))

\* BiomePaletteContainer::with_bits_unchecked, for bits <= 3
BiomeWithBits(b, v) ==
    IF b = 0 THEN New(v)
    ELSE Container("Linear", 0, b, NoValues, Pow2(b), NoIndices, PackedNew(b))

\* get_unchecked of both containers
GetUnchecked(c, i) ==
    CASE c.variant = "SingleValue" -> c.single
      [] c.variant = "Linear" -> LinearValue(c, PackedGet(c.data, i))
      [] c.variant = "Mapped" -> MappedValue(c, PackedGet(c.data, i))
      [] OTHER -> PackedGet(c.data, i)

\* The panics: panic!("out of bounds"), panic!("bits cannot exceed 3") and
\* the slice index past the end of values in LinearPalette::value.
NoPanic == "none"
OutOfBounds == "out of bounds"
PaletteOverflow == "bits cannot exceed 3"
IndexPanic == "index out of bounds"

\* What set_unchecked returns: the container as the call left it, the panic
\* that ended it (or none) and the number of iterations of its loop.
Outcome(c, panicked, n) == [c |-> c, panic |-> panicked, iters |-> n]

\* The widest biome palette.
BiomeMaxBits == 3

\* BiomePaletteContainer::set_unchecked, SingleValue arm: the Linear palette
\* that replaces SingleValue(c.single) when index() asked for b bits.
BiomeFromSingle(c, b) ==
    Container("Linear", 0, b, <<c.single>>, ReserveExact(0, 0, 2), NoIndices,
              PackedNew(1))

\* A check that lets 4 bits through.
BiomeOverflowLate(b) == b > BiomeMaxBits + 1

\* BiomePaletteContainer::set_unchecked, Linear arm: whether b bits are refused.
BiomeOverflow(b) == b > BiomeMaxBits

\* BiomePaletteContainer::set_unchecked, Linear arm: the palette widened to b
\* bits, its values taken over and its packed array after change_bits(b).
BiomeWiden(c, b) ==
    Container("Linear", 0, b, c.values,
              ReserveExact(Len(c.values), c.cap, c.cap), NoIndices,
              PackedChangeBits(c.data, b))

\* BiomePaletteContainer::set_unchecked, from iteration n of its loop
RECURSIVE BiomeSetUnchecked(_, _, _, _)
BiomeSetUnchecked(c, i, v, n) ==
    IF c.variant = "SingleValue"
    THEN LET r == SingleIndex(c.single, v)
         IN  IF r.tag = "Index" THEN Outcome(c, NoPanic, n)
             ELSE BiomeSetUnchecked(BiomeFromSingle(c, r.n), i, v, n + 1)
    ELSE LET r == LinearIndex(c, v)
         IN  IF r.tag = "Index"
             THEN Outcome([c EXCEPT !.values = r.values,
                                    !.data = PackedSet(c.data, i, r.n)],
                          NoPanic, n)
             ELSE IF BiomeOverflow(r.n) THEN Outcome(c, PaletteOverflow, n)
             ELSE BiomeSetUnchecked(BiomeWiden(c, r.n), i, v, n + 1)

\* The width of the packed array of a container promoted to Global.
GlobalBits == 15
\* The width and capacity of the state container's Linear palette.
StateLinearBits == 4
\* Mapped index() asking for this many bits promotes to Global.
StateGlobalAt == 9

\* StatePaletteContainer::with_bits
StateWithBits(b, v) ==
    IF b = 0 THEN New(v)
    ELSE IF b <= 4
    THEN Container("Linear", 0, StateLinearBits, NoValues, Pow2(StateLinearBits),
                   NoIndices, PackedNew(StateLinearBits))
    ELSE IF b <= 8
    THEN Container("Mapped", 0, b, NoValues, Pow2(b), NoIndices, PackedNew(b))
    ELSE Container("Global", 0, 0, NoValues, 0, NoIndices, PackedNew(b))

\* A Linear palette of 5 bits in place of SingleValue(c.single).
StateFromSingleWide(c) ==
    Container("Linear", 0, StateLinearBits + 1, <<c.single>>,
              ReserveExact(0, 0, Pow2(StateLinearBits)), NoIndices,
              PackedNew(StateLinearBits + 1))

\* StatePaletteContainer::set_unchecked, SingleValue arm: the Linear palette
\* that replaces SingleValue(c.single).
StateFromSingle(c) ==
    Container("Linear", 0, StateLinearBits, <<c.single>>,
              ReserveExact(0, 0, Pow2(StateLinearBits)), NoIndices,
              PackedNew(StateLinearBits))

\* A Mapped palette no wider than the Linear one it replaces, and as full.
StateToMappedNarrow(c, b) ==
    Container("Mapped", 0, b - 1, c.values, c.cap, NoIndices,
              PackedChangeBits(c.data, b - 1))

\* StatePaletteContainer::set_unchecked, Linear arm: the Mapped palette that
\* replaces a full Linear one when index() asked for b bits.
StateToMapped(c, b) ==
    Container("Mapped", 0, 5, c.values,
              ReserveExact(Len(c.values), c.cap, Pow2(StateLinearBits)),
              NoIndices, PackedChangeBits(c.data, b))

\* StatePaletteContainer::set_unchecked, Mapped arm, bits < 9: the Mapped
\* palette of b bits, its values and indices taken over.
StateWiden(c, b) ==
    Container("Mapped", 0, b, c.values, c.cap, c.indices,
              PackedChangeBits(c.data, b))

\* A Global container as wide as the request for bits that caused it.
StateToGlobalNarrow(c) ==
    Container("Global", 0, 0, NoValues, 0, NoIndices,
              [bits |-> StateGlobalAt,
               entries |-> [j \in Slots |->
                               GetUnchecked(c, j) % Pow2(StateGlobalAt)]])

\* StatePaletteContainer::set_unchecked, Mapped arm, bits == 9: the Global
\* container, every entry read through the outgoing palette.
StateToGlobal(c) ==
    Container("Global", 0, 0, NoValues, 0, NoIndices,
              [bits |-> GlobalBits,
               entries |-> [j \in Slots |->
                               GetUnchecked(c, j) % Pow2(GlobalBits)]])

\* StatePaletteContainer::set_unchecked, from iteration n of its loop
RECURSIVE StateSetUnchecked(_, _, _, _)
StateSetUnchecked(c, i, v, n) ==
    CASE c.variant = "SingleValue" ->
           LET r == SingleIndex(c.single, v)
           IN  IF r.tag = "Index" THEN Outcome(c, NoPanic, n)
               ELSE StateSetUnchecked(StateFromSingle(c), i, v, n + 1)
      [] c.variant = "Linear" ->
           LET r == LinearIndex(c, v)
           IN  IF r.tag = "Index"
               THEN Outcome([c EXCEPT !.values = r.values,
                                      !.data = PackedSet(c.data, i, r.n)],
                            NoPanic, n)
               ELSE StateSetUnchecked(StateToMapped(c, r.n), i, v, n + 1)
      [] c.variant = "Mapped" ->
           LET r == MappedIndex(c, v)
           IN  IF r.tag = "Index"
               THEN Outcome([c EXCEPT !.values = r.values,
                                      !.indices = r.indices,
                                      !.data = PackedSet(c.data, i, r.n)],
                            NoPanic, n)
               ELSE IF r.n = StateGlobalAt
               THEN IF \E j \in Slots : GetUnchecked(c, j) = Panicked
                    THEN Outcome(c, IndexPanic, n)
                    ELSE StateSetUnchecked(StateToGlobal(c), i, v, n + 1)
               ELSE StateSetUnchecked(StateWiden(c, r.n), i, v, n + 1)
      [] OTHER -> Outcome([c EXCEPT !.data = PackedSet(c.data, i, v)], NoPanic, n)

(***************************************************************************)
(* The checked operations                                                  *)
(***************************************************************************)

\* The bounds checks of get, set and swap (of both containers).
GetInBounds(i) == i < N
SetInBoundsInclusive(i) == i <= N
SetInBounds(i) == i < N
SwapInBounds(i) == i < N

\* BiomePaletteContainer::get / StatePaletteContainer::get: the value, or
\* the panic.
Get(c, i) ==
    IF ~GetInBounds(i) THEN [ret |-> Panicked, panic |-> OutOfBounds]
    ELSE LET val == GetUnchecked(c, i)
         IN  [ret |-> val, panic |-> IF val = Panicked THEN IndexPanic ELSE NoPanic]

\* BiomePaletteContainer::set
BiomeSet(c, i, v) ==
    IF ~SetInBounds(i) THEN Outcome(c, OutOfBounds, 0)
    ELSE BiomeSetUnchecked(c, i, v, 1)

\* StatePaletteContainer::set
StateSet(c, i, v) ==
    IF ~SetInBounds(i) THEN Outcome(c, OutOfBounds, 0)
    ELSE StateSetUnchecked(c, i, v, 1)

\* set of the container of kind k
SetOf(k, c, i, v) == IF k = "biome" THEN BiomeSet(c, i, v) ELSE StateSet(c, i, v)

\* swap_unchecked of both containers: the value read, then the set.
SwapUnchecked(k, c, i, v) ==
    LET val == GetUnchecked(c, i)
        out == IF k = "biome" THEN BiomeSetUnchecked(c, i, v, 1)
               ELSE StateSetUnchecked(c, i, v, 1)
    IN  IF val = Panicked
        THEN [c |-> c, ret |-> Panicked, panic |-> IndexPanic, iters |-> 0]
        ELSE [c |-> out.c,
              ret |-> IF out.panic = NoPanic THEN val ELSE Panicked,
              panic |-> out.panic, iters |-> out.iters]

\* BiomePaletteContainer::swap / StatePaletteContainer::swap
Swap(k, c, i, v) ==
    IF ~SwapInBounds(i)
    THEN [c |-> c, ret |-> Panicked, panic |-> OutOfBounds, iters |-> 0]
    ELSE SwapUnchecked(k, c, i, v)

(***************************************************************************)
(* The state machine: one container and the calls made on it, or one chunk *)
(* column, or one call of a function of chunk.rs                           *)
(***************************************************************************)

VARIABLES
    kind,        \* "biome" or "state": which container this is; "column",
                 \* "section" or "bits" when chunk.rs is the subject
    origin,      \* how it was constructed: [ctor, bits]
    maxval,      \* the largest value its caller hands it
    window,      \* how far back its caller reaches for a value used before
    c,           \* the container
    introduced,  \* the values new and the successful set/swap calls were given
    last,        \* the last call: [op, i, v, ret, panic, iters]
    args,        \* chunk.rs: the arguments the caller has for the call
    cursor,      \* chunk.rs: the std::io::Cursor the caller reads from
    column,      \* chunk.rs: the ChunkColumn0
    heap,        \* chunk.rs: the buffers allocated so far
    result       \* chunk.rs: the last call and what it returned

vars == <<kind, origin, maxval, window, c, introduced, last,
          args, cursor, column, heap, result>>

paletteVars == <<origin, maxval, window, c, introduced, last>>

chunkVars == <<args, cursor, column, heap, result>>

\* No call of chunk.rs yet.
NoCall == [op |-> "none"]

\* No chunk column, no cursor and no call of chunk.rs.
NoChunk ==
    /\ args = <<>>
    /\ cursor = <<>>
    /\ column = <<>>
    /\ heap = <<>>
    /\ result = NoCall

Call(op, i, v, ret, panic, iters) ==
    [op |-> op, i |-> i, v |-> v, ret |-> ret, panic |-> panic, iters |-> iters]

\* No palette container.
NoPalette ==
    /\ origin = [ctor |-> "none", bits |-> 0]
    /\ maxval = 0
    /\ window = 0
    /\ c = New(0)
    /\ introduced = {}
    /\ last = Call("none", 0, 0, 0, NoPanic, 0)

\* The arguments i of a call: every slot, and N itself.
Indexes == 0 .. N

Fresh == Cardinality(introduced)

\* The values a call may be given. Values are named in the order they are
\* first used: a call brings the next unused value, or one of the window last
\* used ones.
Inputs == {v \in 0 .. maxval : v <= Fresh /\ v + window >= Fresh}

\* A container built by new(0).
InitNew(k) ==
    /\ kind = k
    /\ origin = [ctor |-> "new", bits |-> 0]
    /\ c = New(0)
    /\ introduced = {0}
    /\ last = Call("new", 0, 0, 0, NoPanic, 0)
    /\ NoChunk

\* A container built by with_bits(b, 0).
InitWithBits(k) ==
    /\ kind = k
    /\ \E b \in 0 .. MaxBits :
          /\ k = "biome" => b <= BiomeMaxBits
          /\ origin = [ctor |-> "with_bits", bits |-> b]
          /\ c = IF k = "biome" THEN BiomeWithBits(b, 0) ELSE StateWithBits(b, 0)
          /\ introduced = IF b = 0 THEN {0} ELSE {}
    /\ last = Call("with_bits", 0, 0, 0, NoPanic, 0)
    /\ NoChunk

\* Both containers, built either way, over a short run of values.
Init ==
    /\ \/ InitNew("biome") /\ maxval = MaxValBiome
       \/ InitNew("state") /\ maxval = MaxValShort
       \/ InitWithBits("biome") /\ maxval = MaxValShort
       \/ InitWithBits("state") /\ maxval = MaxValShort
    /\ window = maxval

\* A state container built by new(0), over a run of values long enough to
\* take it through every promotion.
InitChain ==
    /\ InitNew("state")
    /\ maxval = MaxVal
    /\ window = Recent

DoGet ==
    \E i \in Indexes :
        \E r \in {Get(c, i)} :
            /\ last' = Call("get", i, 0, r.ret, r.panic, 0)
            /\ UNCHANGED <<kind, origin, maxval, window, c, introduced>>
            /\ UNCHANGED chunkVars

DoSet ==
    \E i \in Indexes, v \in Inputs :
        \E r \in {SetOf(kind, c, i, v)} :
            /\ c' = r.c
            /\ introduced' = IF r.panic = NoPanic THEN introduced \cup {v}
                              ELSE introduced
            /\ last' = Call("set", i, v, 0, r.panic, r.iters)
            /\ UNCHANGED <<kind, origin, maxval, window>>
            /\ UNCHANGED chunkVars

DoSwap ==
    \E i \in Indexes, v \in Inputs :
        \E r \in {Swap(kind, c, i, v)} :
            /\ c' = r.c
            /\ introduced' = IF r.panic = NoPanic THEN introduced \cup {v}
                              ELSE introduced
            /\ last' = Call("swap", i, v, r.ret, r.panic, r.iters)
            /\ UNCHANGED <<kind, origin, maxval, window>>
            /\ UNCHANGED chunkVars

Next == DoGet \/ DoSet \/ DoSwap

Spec == Init /\ [][Next]_vars

SpecChain == InitChain /\ [][Next]_vars

\* A container built by new(0) whose caller brings a value never used before
\* with every set and swap: a state container up to the promotion to Global,
\* or a biome container up to the overflow of its palette.
InitPromote ==
    /\ \/ InitNew("state") /\ maxval = MaxVal
       \/ InitNew("biome") /\ maxval = MaxValBiome
    /\ window = 0

SpecPromote == InitPromote /\ [][Next]_vars

(***************************************************************************)
(* chunk.rs: bit_at                                                        *)
(***************************************************************************)

\* The width of a mask (u16) and the indexes of its bits.
MaskBits == 16
BitIndexes == 0 .. (MaskBits - 1)

\* The mask with exactly the bits of the set S.
RECURSIVE MaskOf(_)
MaskOf(S) ==
    IF S = {} THEN 0
    ELSE LET i == CHOOSE x \in S : TRUE IN Pow2(i) + MaskOf(S \ {i})

\* The masks with at most MaxSetBits bits set, and those with at most
\* MaxSetBits bits clear.
FewBits == {S \in SUBSET BitIndexes : Cardinality(S) <= MaxSetBits}
Masks == {MaskOf(S) : S \in FewBits} \cup {MaskOf(BitIndexes \ S) : S \in FewBits}

\* The bit above the one asked for.
BitAtAbove(val, idx) == ((val \div Pow2(idx + 1)) % 2) # 0

\* bit_at: (val >> idx) & 0b1 != 0.
BitAt(val, idx) == ((val \div Pow2(idx)) % 2) # 0

\* A caller with a mask and an index for bit_at.
InitBits ==
    /\ kind = "bits"
    /\ NoPalette
    /\ \E m \in Masks, i \in BitIndexes : args = [val |-> m, idx |-> i]
    /\ cursor = <<>>
    /\ column = <<>>
    /\ heap = <<>>
    /\ result = NoCall

CallBitAt ==
    /\ kind = "bits"
    /\ result.op = "none"
    /\ result' = [op |-> "bit_at", ret |-> BitAt(args.val, args.idx)]
    /\ UNCHANGED <<kind, args, cursor, column, heap>>
    /\ UNCHANGED paletteVars

NextBits == CallBitAt

SpecBits == InitBits /\ [][NextBits]_vars

(***************************************************************************)
(* chunk.rs: ChunkColumn0 and its arena                                    *)
(*                                                                         *)
(* A buffer is a list of extents [len, src]: len bytes that were copied    *)
(* from the cursor starting at its offset src, or that were never written  *)
(* (src = Uninit).  Two ranges hold the same bytes when their extents are  *)
(* the same.                                                               *)
(***************************************************************************)

NumSections == 16
SectionSlots == 0 .. (NumSections - 1)
BlocksLen == 4096
HalfLen == 2048
MinimumSectionSize == BlocksLen + (3 * HalfLen)

FieldNames == {"blocks", "metadata", "light", "sky_light", "add", "biomes"}
FieldLen(f) == IF f = "blocks" THEN BlocksLen ELSE HalfLen

Uninit == -1

\* The first n bytes of a list of extents.
RECURSIVE CopyPrefix(_, _)
CopyPrefix(bytes, n) ==
    IF n <= 0 \/ bytes = <<>> THEN <<>>
    ELSE IF Head(bytes).len <= n
         THEN <<Head(bytes)>> \o CopyPrefix(Tail(bytes), n - Head(bytes).len)
         ELSE <<[len |-> n, src |-> Head(bytes).src]>>

\* A list of extents without its first n bytes.
RECURSIVE DropPrefix(_, _)
DropPrefix(bytes, n) ==
    IF bytes = <<>> THEN <<>>
    ELSE IF n <= 0 THEN bytes
    ELSE IF Head(bytes).len <= n
         THEN DropPrefix(Tail(bytes), n - Head(bytes).len)
         ELSE <<[len |-> Head(bytes).len - n,
                 src |-> IF Head(bytes).src = Uninit THEN Uninit
                         ELSE Head(bytes).src + n]>> \o Tail(bytes)

\* The bytes of the range [off, off + n).
ReadAt(bytes, off, n) == CopyPrefix(DropPrefix(bytes, off), n)

\* ptr::copy_nonoverlapping / copy_from_nonoverlapping: the list of extents
\* with the extents data written at off.
WriteAt(bytes, off, data, n) ==
    CopyPrefix(bytes, off) \o data \o DropPrefix(bytes, off + n)

\* The pointers a column may hold: none, the dangling pointer of a Vec of
\* capacity 0, or the place of a buffer in the heap.
NoBuf == 0
Dangling == -1

\* Vec::with_capacity(cap), as_mut_ptr, mem::forget: a buffer of cap bytes
\* never written, owned by nobody but the pointer.
Alloc(hp, cap) ==
    IF cap = 0 THEN [heap |-> hp, ptr |-> Dangling]
    ELSE [heap |-> Append(hp, [cap |-> cap,
                               bytes |-> <<[len |-> cap, src |-> Uninit]>>,
                               live |-> TRUE, frees |-> 0, freed |-> 0]),
          ptr |-> Len(hp) + 1]

\* A release that releases nothing.
FreeNothing(hp, ptr, size) == hp

\* drop(Vec::from_raw_parts(ptr, size, size)): nothing for capacity 0, else
\* the buffer is released as one of size bytes.
Free(hp, ptr, size) ==
    IF size = 0 \/ ptr = Dangling THEN hp
    ELSE [hp EXCEPT ![ptr] = [@ EXCEPT !.live = FALSE,
                                        !.frees = @ + 1,
                                        !.freed = size]]

\* The bytes of the buffer at ptr.
BufBytes(hp, ptr) == IF ptr \in 1 .. Len(hp) THEN hp[ptr].bytes ELSE <<>>

\* The same buffer with other bytes.
WithBytes(hp, ptr, bytes) ==
    IF ptr \in 1 .. Len(hp) THEN [hp EXCEPT ![ptr].bytes = bytes] ELSE hp

\* A reference to nothing (None), a reference into a buffer, and a section
\* slot holding None.
NoRef == [buf |-> NoBuf, off |-> 0]
Ref(ptr, off) == [buf |-> ptr, off |-> off]
NoSection == [some |-> FALSE, ref |-> [f \in FieldNames |-> NoRef]]

\* ChunkColumn0 { buf, size, sections }.
Column(st, ptr, size, sections) ==
    [state |-> st, buf |-> ptr, size |-> size, sections |-> sections]

\* ChunkColumn0::new: no buffer, size 0, sixteen times None.
ColumnNew == Column("live", NoBuf, 0, [i \in SectionSlots |-> NoSection])

\* <&ByteArray<N>>::decode / <&HalfByteArray<N>>::decode: the next n bytes of
\* the cursor as a borrowed slice, or an error when fewer are left.
DecodeArray(cur, n) ==
    IF cur.len - cur.pos >= n
    THEN [ok |-> TRUE, at |-> cur.pos, cursor |-> [cur EXCEPT !.pos = @ + n]]
    ELSE [ok |-> FALSE, at |-> cur.pos, cursor |-> cur]

\* A slice that was not decoded (None), and a slot of decode_sections
\* holding None.
NoSlice == -1
NoDecode == [some |-> FALSE, at |-> [f \in FieldNames |-> NoSlice]]

\* An order of the fields with add before sky_light.
AddBeforeSkyLight == <<"blocks", "metadata", "light", "add", "sky_light", "biomes">>

\* The order of the fields in ChunkSection0Decode::from_reader.
DecodeOrder == <<"blocks", "metadata", "light", "sky_light", "add", "biomes">>

\* The order of the fields in the section literal of from_reader.
FillOrder == <<"blocks", "metadata", "light", "sky_light", "add", "biomes">>

\* The order of the fields in the section literal of reallocate.
WalkOrder == <<"blocks", "metadata", "light", "sky_light", "add", "biomes">>

\* ChunkSection0Decode::from_reader, from field k of the order on: each
\* field is decoded in turn, sky_light and add only when asked for, and the
\* first error ends it.
RECURSIVE SectionFromReader(_, _, _, _, _)
SectionFromReader(cur, sky_light, add, k, sec) ==
    IF k > Len(DecodeOrder) THEN [ok |-> TRUE, section |-> sec, cursor |-> cur]
    ELSE LET f == DecodeOrder[k] IN
         IF (f = "sky_light" /\ ~sky_light) \/ (f = "add" /\ ~add)
         THEN SectionFromReader(cur, sky_light, add, k + 1, sec)
         ELSE LET d == DecodeArray(cur, FieldLen(f)) IN
              IF ~d.ok THEN [ok |-> FALSE, section |-> NoDecode, cursor |-> d.cursor]
              ELSE SectionFromReader(d.cursor, sky_light, add, k + 1,
                       [sec EXCEPT !.some = TRUE, !.at[f] = d.at])

\* ChunkColumn0::from_reader, first loop from slot i on: the sections the
\* bitmask names are decoded and counted.
RECURSIVE DecodeSections(_, _, _, _, _)
DecodeSections(cur, a, i, decoded, n) ==
    IF i >= NumSections
    THEN [ok |-> TRUE, decoded |-> decoded, n |-> n, cursor |-> cur]
    ELSE IF ~BitAt(a.bitmask, i)
         THEN DecodeSections(cur, a, i + 1, decoded, n)
         ELSE LET add == BitAt(a.add, i)
                  sky_light == BitAt(a.sky_light, i)
                  d == SectionFromReader(cur, sky_light, add, 1, NoDecode)
              IN IF ~d.ok
                 THEN [ok |-> FALSE, decoded |-> decoded, n |-> n,
                       cursor |-> d.cursor]
                 ELSE DecodeSections(d.cursor, a, i + 1,
                          [decoded EXCEPT ![i] = d.section],
                          [nsections |-> n.nsections + 1,
                           nadd |-> n.nadd + (IF add THEN 1 ELSE 0),
                           nsky_light |-> n.nsky_light
                                            + (IF sky_light THEN 1 ELSE 0)])

\* new_field for the fields of one section from field k of the order on:
\* each decoded slice is copied to p and p moves past it.
RECURSIVE FillFields(_, _, _, _, _, _)
FillFields(dec, ptr, k, p, bytes, sec) ==
    IF k > Len(FillOrder) THEN [p |-> p, bytes |-> bytes, section |-> sec]
    ELSE LET f == FillOrder[k] IN
         IF dec.at[f] = NoSlice
         THEN FillFields(dec, ptr, k + 1, p, bytes, sec)
         ELSE FillFields(dec, ptr, k + 1, p + FieldLen(f),
                  WriteAt(bytes, p,
                          <<[len |-> FieldLen(f), src |-> dec.at[f]]>>,
                          FieldLen(f)),
                  [sec EXCEPT !.some = TRUE, !.ref[f] = Ref(ptr, p)])

\* ChunkColumn0::from_reader, second loop from slot i on.
RECURSIVE FillSections(_, _, _, _, _, _)
FillSections(decoded, ptr, i, p, bytes, sections) ==
    IF i >= NumSections THEN [bytes |-> bytes, sections |-> sections]
    ELSE IF ~decoded[i].some
         THEN FillSections(decoded, ptr, i + 1, p, bytes, sections)
         ELSE LET r == FillFields(decoded[i], ptr, 1, p, bytes, NoSection) IN
              FillSections(decoded, ptr, i + 1, r.p, r.bytes,
                           [sections EXCEPT ![i] = r.section])

\* The arena size from_reader computes from its three counts.
ArenaSize(n) ==
    (n.nsections * MinimumSectionSize) + (n.nsky_light * HalfLen)
        + (n.nadd * HalfLen)

\* A from_reader that allocates the arena of one section before it decodes.
FromReaderEager(cur, a, hp) ==
    LET d == DecodeSections(cur, a, 0, [i \in SectionSlots |-> NoDecode],
                            [nsections |-> 0, nadd |-> 0, nsky_light |-> 0])
        al == Alloc(hp, MinimumSectionSize)
    IN [ok |-> d.ok, column |-> Column("live", al.ptr, MinimumSectionSize,
                                       [i \in SectionSlots |-> NoSection]),
        heap |-> al.heap, cursor |-> d.cursor]

\* ChunkColumn0::from_reader(cursor, bitmask, add, sky_light) on the heap hp.
FromReader(cur, a, hp) ==
    LET d == DecodeSections(cur, a, 0, [i \in SectionSlots |-> NoDecode],
                            [nsections |-> 0, nadd |-> 0, nsky_light |-> 0])
    IN IF ~d.ok
       THEN [ok |-> FALSE, column |-> <<>>, heap |-> hp, cursor |-> d.cursor]
       ELSE LET size == ArenaSize(d.n)
                al == Alloc(hp, size)
                r == FillSections(d.decoded, al.ptr, 0, 0,
                                  BufBytes(al.heap, al.ptr),
                                  [i \in SectionSlots |-> NoSection])
            IN [ok |-> TRUE,
                column |-> Column("live", al.ptr, size, r.sections),
                heap |-> WithBytes(al.heap, al.ptr, r.bytes),
                cursor |-> d.cursor]

\* update_ref for the fields of one section from field k of the order on:
\* a field the old section has gets the reference at p, and p moves past it.
RECURSIVE WalkFields(_, _, _, _, _)
WalkFields(old, ptr, k, p, sec) ==
    IF k > Len(WalkOrder) THEN [p |-> p, section |-> sec]
    ELSE LET f == WalkOrder[k] IN
         IF f \in {"sky_light", "add"} /\ old.ref[f] = NoRef
         THEN WalkFields(old, ptr, k + 1, p, sec)
         ELSE WalkFields(old, ptr, k + 1, p + FieldLen(f),
                         [sec EXCEPT !.some = TRUE, !.ref[f] = Ref(ptr, p)])

\* ChunkColumn0::reallocate, the loop over the slots from slot i on.
RECURSIVE WalkSections(_, _, _, _, _)
WalkSections(old, ptr, i, p, sections) ==
    IF i >= NumSections THEN sections
    ELSE IF ~old[i].some THEN WalkSections(old, ptr, i + 1, p, sections)
    ELSE LET r == WalkFields(old[i], ptr, 1, p, NoSection) IN
         WalkSections(old, ptr, i + 1, r.p, [sections EXCEPT ![i] = r.section])

\* The old bytes are not copied to the new buffer.
CopyNothing(hp, from, to, size) == hp

\* ptr::copy_nonoverlapping(buf, new, size).
CopyNonoverlapping(hp, from, to, size) ==
    WithBytes(hp, to,
              WriteAt(BufBytes(hp, to), 0,
                      CopyPrefix(BufBytes(hp, from), size), size))

\* The view reallocate would return if it added the bytes in front.
ViewAtStart(ptr, old_size, n) == [buf |-> ptr, off |-> 0, len |-> n]

\* The view reallocate returns: n bytes at new.add(old_size).
ViewAtEnd(ptr, old_size, n) == [buf |-> ptr, off |-> old_size, len |-> n]

\* ChunkColumn0::reallocate::<n>() on the column col: the assertion, the new
\* buffer, the copy and the new sections when there is an old buffer, the
\* assignment that drops the old column, and the view of the added bytes.
Reallocate(col, hp, n) ==
    IF n = 0
    THEN [panic |-> TRUE, column |-> col, heap |-> hp, view |-> NoRef]
    ELSE LET al == Alloc(hp, col.size + n)
             copied == IF col.buf # NoBuf
                       THEN CopyNonoverlapping(al.heap, col.buf, al.ptr, col.size)
                       ELSE al.heap
             sections == IF col.buf # NoBuf
                         THEN WalkSections(col.sections, al.ptr, 0, 0,
                                           [i \in SectionSlots |-> NoSection])
                         ELSE [i \in SectionSlots |-> NoSection]
             this == Column("live", al.ptr, col.size + n, sections)
             dropped == IF col.buf # NoBuf THEN Free(copied, col.buf, col.size)
                        ELSE copied
         IN [panic |-> FALSE, column |-> this, heap |-> dropped,
             view |-> ViewAtEnd(al.ptr, col.size, n)]

\* Drop for ChunkColumn0.
Drop(col, hp) ==
    [column |-> [col EXCEPT !.state = "dropped"],
     heap |-> IF col.buf # NoBuf THEN Free(hp, col.buf, col.size) ELSE hp]

(***************************************************************************)
(* chunk.rs: one column, built by from_reader or by new, grown by          *)
(* reallocate and dropped                                                  *)
(***************************************************************************)

\* The slots the masks of the caller may name: the first and the last ones.
SampleSlots == {0} \cup {NumSections - k : k \in 1 .. (MaxSlots - 1)}
SampleMasks == {MaskOf(S) : S \in SUBSET SampleSlots}

\* The lengths of the data behind the cursor: every multiple of half a
\* nibble array of at most MaxCursor of them.
CursorLens == {k * (HalfLen \div 2) : k \in 0 .. MaxCursor}

\* The values reallocate is given for N.
GrowSizes == {0, 1, HalfLen}

\* The call of a column operation and what it gave.
ColumnCall(op, n, ok, view, calls) ==
    [op |-> op, n |-> n, ok |-> ok, view |-> view, calls |-> calls]

\* A caller about to build a column: from a cursor over data of some length
\* with three masks, or by new().
InitColumn ==
    /\ kind = "column"
    /\ NoPalette
    /\ \/ \E b, a, s \in SampleMasks, l \in CursorLens :
             /\ args = [ctor |-> "from_reader", bitmask |-> b, add |-> a,
                        sky_light |-> s]
             /\ cursor = [len |-> l, pos |-> 0]
       \/ /\ args = [ctor |-> "new", bitmask |-> 0, add |-> 0, sky_light |-> 0]
          /\ cursor = [len |-> 0, pos |-> 0]
    /\ column = Column("none", NoBuf, 0, [i \in SectionSlots |-> NoSection])
    /\ heap = <<>>
    /\ result = NoCall

ColFromReader ==
    /\ kind = "column" /\ column.state = "none" /\ result.op = "none"
    /\ args.ctor = "from_reader"
    /\ \E r \in {FromReader(cursor, args, heap)} :
          /\ cursor' = r.cursor
          /\ heap' = r.heap
          /\ column' = IF r.ok THEN r.column ELSE column
          /\ result' = ColumnCall("from_reader", 0, r.ok, NoRef, 0)
    /\ UNCHANGED <<kind, args>>
    /\ UNCHANGED paletteVars

ColNew ==
    /\ kind = "column" /\ column.state = "none" /\ result.op = "none"
    /\ args.ctor = "new"
    /\ column' = ColumnNew
    /\ result' = ColumnCall("new", 0, TRUE, NoRef, 0)
    /\ UNCHANGED <<kind, args, cursor, heap>>
    /\ UNCHANGED paletteVars

ColReallocate ==
    /\ kind = "column" /\ column.state = "live"
    /\ result.calls < MaxReallocs
    /\ \E n \in GrowSizes :
          \E r \in {Reallocate(column, heap, n)} :
             /\ column' = r.column
             /\ heap' = r.heap
             /\ result' = ColumnCall("reallocate", n, ~r.panic, r.view,
                                     result.calls + 1)
    /\ UNCHANGED <<kind, args, cursor>>
    /\ UNCHANGED paletteVars

ColDrop ==
    /\ kind = "column" /\ column.state = "live"
    /\ \E r \in {Drop(column, heap)} :
          /\ column' = r.column
          /\ heap' = r.heap
    /\ result' = ColumnCall("drop", 0, TRUE, NoRef, result.calls)
    /\ UNCHANGED <<kind, args, cursor>>
    /\ UNCHANGED paletteVars

NextColumn == ColFromReader \/ ColNew \/ ColReallocate \/ ColDrop

SpecColumn == InitColumn /\ [][NextColumn]_vars

(***************************************************************************)
(* chunk.rs: ChunkSection<S, B>, encode and decode                         *)
(*                                                                         *)
(* The codecs of u16 and of the two containers are those of the miners     *)
(* crate and of the type parameters S and B.  Here u16 is two bytes, high  *)
(* byte first, S is a run of entries behind its length, and B is one byte. *)
(***************************************************************************)

\* The first n elements of a sequence.
Take(s, n) == SubSeq(s, 1, IF n < Len(s) THEN n ELSE Len(s))

\* The bytes left behind the cursor.
Remaining(cur) == SubSeq(cur.data, cur.pos + 1, Len(cur.data))

DecodeOk(v, cur, n) == [ok |-> TRUE, value |-> v, err |-> "none",
                        cursor |-> [cur EXCEPT !.pos = @ + n]]
DecodeErr(e, cur) == [ok |-> FALSE, value |-> 0, err |-> e, cursor |-> cur]

\* u16::encode and u16::decode.
EncodeU16(n) == <<n \div 256, n % 256>>
DecodeU16(cur) ==
    LET rest == Remaining(cur) IN
    IF Len(rest) < 2 THEN DecodeErr("u16", cur)
    ELSE DecodeOk((rest[1] * 256) + rest[2], cur, 2)

\* S::encode and S::decode.
EncodeStates(s) == <<Len(s)>> \o s
DecodeStates(cur) ==
    LET rest == Remaining(cur) IN
    IF Len(rest) < 1 \/ Len(rest) < 1 + rest[1] THEN DecodeErr("states", cur)
    ELSE DecodeOk(SubSeq(rest, 2, 1 + rest[1]), cur, 1 + rest[1])

\* B::encode and B::decode.
EncodeBiomes(b) == <<b>>
DecodeBiomes(cur) ==
    LET rest == Remaining(cur) IN
    IF Len(rest) < 1 THEN DecodeErr("biomes", cur)
    ELSE DecodeOk(rest[1], cur, 1)

\* ChunkSection { block_count, states, biomes }.
Section(block_count, states, biomes) ==
    [block_count |-> block_count, states |-> states, biomes |-> biomes]

\* ChunkSection::encode: block_count, states, biomes, appended to the writer.
EncodeSection(sec, writer) ==
    LET w1 == writer \o EncodeU16(sec.block_count)
        w2 == w1 \o EncodeStates(sec.states)
    IN w2 \o EncodeBiomes(sec.biomes)

\* A decode that reads the biomes before the states.
DecodeSectionBiomesFirst(cur) ==
    LET bc == DecodeU16(cur) IN
    IF ~bc.ok THEN DecodeErr(bc.err, bc.cursor)
    ELSE LET b == DecodeBiomes(bc.cursor) IN
         IF ~b.ok THEN DecodeErr(b.err, b.cursor)
         ELSE LET s == DecodeStates(b.cursor) IN
              IF ~s.ok THEN DecodeErr(s.err, s.cursor)
              ELSE [ok |-> TRUE, value |-> Section(bc.value, s.value, b.value),
                    err |-> "none", cursor |-> s.cursor]

\* ChunkSection::decode: block_count, states, biomes, each followed by ?.
DecodeSection(cur) ==
    LET bc == DecodeU16(cur) IN
    IF ~bc.ok THEN DecodeErr(bc.err, bc.cursor)
    ELSE LET s == DecodeStates(bc.cursor) IN
         IF ~s.ok THEN DecodeErr(s.err, s.cursor)
         ELSE LET b == DecodeBiomes(s.cursor) IN
              IF ~b.ok THEN DecodeErr(b.err, b.cursor)
              ELSE [ok |-> TRUE, value |-> Section(bc.value, s.value, b.value),
                    err |-> "none", cursor |-> b.cursor]

\* The block counts, states and biomes of the sections the caller encodes.
BlockCounts == {0, 1, 255, 256, 4096, 65535}
StatesSample == UNION {[1 .. n -> 0 .. MaxEntry] : n \in 0 .. MaxRun}
BiomesSample == 0 .. MaxEntry

\* A caller with a section to encode, and with the number of bytes of the
\* encoding that will reach the decoder.
InitSection ==
    /\ kind = "section"
    /\ NoPalette
    /\ \E bc \in BlockCounts, s \in StatesSample, b \in BiomesSample,
          k \in 0 .. (MaxRun + 4) :
          args = [section |-> Section(bc, s, b), cut |-> k]
    /\ cursor = [data |-> <<>>, pos |-> 0]
    /\ column = <<>>
    /\ heap = <<>>
    /\ result = NoCall

SecEncode ==
    /\ kind = "section" /\ result.op = "none"
    /\ cursor' = [data |-> Take(EncodeSection(args.section, <<>>), args.cut),
                  pos |-> 0]
    /\ result' = [op |-> "encode", ok |-> TRUE, value |-> 0, err |-> "none"]
    /\ UNCHANGED <<kind, args, column, heap>>
    /\ UNCHANGED paletteVars

SecDecode ==
    /\ kind = "section" /\ result.op = "encode"
    /\ \E r \in {DecodeSection(cursor)} :
          /\ cursor' = r.cursor
          /\ result' = [op |-> "decode", ok |-> r.ok, value |-> r.value,
                        err |-> r.err]
    /\ UNCHANGED <<kind, args, column, heap>>
    /\ UNCHANGED paletteVars

NextSection == SecEncode \/ SecDecode

SpecSection == InitSection /\ [][NextSection]_vars

(***************************************************************************)
(* Properties                                                              *)
(***************************************************************************)

\* The calls that take an index.
IndexedOps == {"get", "set", "swap"}

\* A set that returned, on a container built by new().
SetReturned(k) ==
    /\ kind = k
    /\ origin.ctor = "new"
    /\ last.op = "set"
    /\ last.panic = NoPanic

\* C1: on a state container built by new(), get(i) right after a set(i, v)
\* that returned gives v.
C1_StateSetThenGet ==
    SetReturned("state") => Get(c, last.i) = [ret |-> last.v, panic |-> NoPanic]

\* C2: on a state container (built by new(), so that every entry reads back
\* a value), a set(i, v) that returned leaves get(j) as it was for every
\* j # i, promotions included.
C2_StateSetFrame ==
    [][(/\ kind = "state" /\ origin.ctor = "new"
        /\ last'.op = "set" /\ last'.panic = NoPanic)
          => \A j \in Slots \ {last'.i} : Get(c', j) = Get(c, j)]_vars

\* C3: on a biome container built by new(), get(i) right after a set(i, v)
\* that returned (at most 8 distinct values) gives v.
C3_BiomeSetThenGet ==
    SetReturned("biome") => Get(c, last.i) = [ret |-> last.v, panic |-> NoPanic]

\* C3 witness: a set that widened the palette to 3 bits and returned.
C3_Witness ==
    /\ SetReturned("biome")
    /\ last.iters = 2
    /\ c.bits = 3
    /\ last.v = 4

\* C4: on a biome container (built by new(), so that every entry reads back
\* a value), a set(i, v) that returned leaves get(j) as it was for every
\* j # i, widening included.
C4_BiomeSetFrame ==
    [][(/\ kind = "biome" /\ origin.ctor = "new"
        /\ last'.op = "set" /\ last'.panic = NoPanic)
          => \A j \in Slots \ {last'.i} : Get(c', j) = Get(c, j)]_vars

\* C5: on both containers a swap(i, v) that returned gives back what get(i)
\* gave just before it, and get(i) gives v after it.
C5_Swap ==
    [][(last'.op = "swap" /\ last'.panic = NoPanic)
          => /\ last'.ret = Get(c, last'.i).ret
             /\ Get(c', last'.i) = [ret |-> last'.v, panic |-> NoPanic]]_vars

\* The smallest variant and width of the progression of a container of kind
\* k that admits n distinct values.
Smallest(k, n) ==
    IF n <= 1 THEN [variant |-> "SingleValue", bits |-> 0]
    ELSE IF k = "biome"
    THEN [variant |-> "Linear",
          bits |-> CHOOSE b \in 1 .. 3 :
                       n <= Pow2(b) /\ \A a \in 1 .. (b - 1) : n > Pow2(a)]
    ELSE IF n <= 16 THEN [variant |-> "Linear", bits |-> 4]
    ELSE IF n <= 256
    THEN [variant |-> "Mapped",
          bits |-> CHOOSE b \in 5 .. 8 :
                       n <= Pow2(b) /\ \A a \in 5 .. (b - 1) : n > Pow2(a)]
    ELSE [variant |-> "Global", bits |-> 15]

\* C6: a container built by new() that was given k distinct values has the
\* smallest variant and width of its progression that admits k values.
C6_SmallestVariant ==
    origin.ctor = "new"
      => /\ c.variant = Smallest(kind, Fresh).variant
         /\ c.data.bits = Smallest(kind, Fresh).bits

\* C7: on a biome container whose Linear palette has 3 bits and 8 values, a
\* set of a 9th value panics with "bits cannot exceed 3" and leaves the
\* container as it was.
C7_BiomeOverflow ==
    [][(/\ kind = "biome"
        /\ c.variant = "Linear" /\ c.bits = 3 /\ Len(c.values) = 8
        /\ last'.op = "set" /\ last'.i < N
        /\ \A k \in 1 .. Len(c.values) : c.values[k] # last'.v)
          => /\ last'.panic = PaletteOverflow
             /\ c' = c
             /\ \A j \in Slots : Get(c', j) = Get(c, j)]_vars

\* C7 witness: a set of a 9th value was refused.
C7_Witness ==
    /\ kind = "biome"
    /\ last.op = "set" /\ last.panic = PaletteOverflow
    /\ c.bits = 3 /\ Len(c.values) = 8 /\ last.v = 8

\* C8: get, set and swap with i >= N panic with "out of bounds", and leave
\* the container as it was.
C8_OutOfBounds ==
    [][(last'.op \in IndexedOps /\ last'.i >= N)
          => /\ last'.panic = OutOfBounds
             /\ c' = c]_vars

\* C8 witness: a set with i = N on a Mapped container was refused.
C8_Witness ==
    /\ last.op = "set" /\ last.i = N /\ last.panic = OutOfBounds
    /\ c.variant = "Mapped" /\ Len(c.values) > 0

\* C9: set(i, u) with i < N on SingleValue(u) leaves the container
\* SingleValue(u), without a packed array, and every get gives u.
C9_SingleValueStays ==
    [][(/\ c.variant = "SingleValue"
        /\ last'.op = "set" /\ last'.i < N /\ last'.v = c.single)
          => /\ last'.panic = NoPanic
             /\ c'.variant = "SingleValue" /\ c'.single = c.single
             /\ c'.data.bits = 0 /\ c'.values = NoValues
             /\ \A j \in Slots : Get(c', j) = [ret |-> c.single, panic |-> NoPanic]]_vars

\* C9 witness: a set of the single value returned on a SingleValue container.
C9_Witness ==
    /\ c.variant = "SingleValue"
    /\ last.op = "set" /\ last.i < N /\ last.v = c.single
    /\ last.panic = NoPanic

\* The variant and the width of the packed array that the sizing table gives
\* with_bits(b, v) of the state container.
SizingTable(b) ==
    IF b = 0 THEN [variant |-> "SingleValue", bits |-> 0]
    ELSE IF b <= 4 THEN [variant |-> "Linear", bits |-> 4]
    ELSE IF b <= 8 THEN [variant |-> "Mapped", bits |-> b]
    ELSE [variant |-> "Global", bits |-> 15]

\* C10: StatePaletteContainer::with_bits(b, v) builds the variant and the
\* width of the sizing table; SingleValue holds v.
C10_WithBitsTable ==
    (kind = "state" /\ last.op = "with_bits")
      => /\ c.variant = SizingTable(origin.bits).variant
         /\ c.data.bits = SizingTable(origin.bits).bits
         /\ c.variant \in {"Linear", "Mapped"} => c.bits = c.data.bits
         /\ c.variant = "SingleValue" => c.single = 0

\* C17: in a Mapped state the side map agrees with the value list: an entry
\* (v -> k) has k < values.len() and values[k] = v.
C17_SideMapAgrees ==
    (kind = "state" /\ c.variant = "Mapped")
      => \A e \in c.indices :
            e[2] < Len(c.values) /\ c.values[e[2] + 1] = e[1]

\* C18: in a Linear or Mapped state of either container the values of the
\* palette are pairwise distinct.
C18_ValuesDistinct ==
    (kind \in {"biome", "state"} /\ c.variant \in {"Linear", "Mapped"})
      => \A a, b \in 1 .. Len(c.values) : a # b => c.values[a] # c.values[b]

\* Whether the value list is full.
Full(p) == Len(p.values) >= p.cap

\* The palette after the widening step that a full palette p takes when a
\* value it does not hold is set: biome Linear b -> b+1, state Linear 4 ->
\* Mapped 5, state Mapped b -> Mapped b+1.  p itself when it takes none.
WidenStep(k, p) ==
    IF k = "biome"
    THEN IF p.variant = "Linear" /\ ~BiomeOverflow(p.bits + 1)
         THEN BiomeWiden(p, p.bits + 1) ELSE p
    ELSE IF p.variant = "Linear" THEN StateToMapped(p, p.bits + 1)
    ELSE IF p.variant = "Mapped" /\ p.bits + 1 # StateGlobalAt
         THEN StateWiden(p, p.bits + 1) ELSE p

\* C19: in a Linear or Mapped state the capacity of the value list is
\* 2^bits, and it is again after the widening step a full palette takes.
C19_CapacityIsPow2 ==
    (kind \in {"biome", "state"} /\ c.variant \in {"Linear", "Mapped"})
      => /\ c.cap = Pow2(c.bits)
         /\ Full(c) => WidenStep(kind, c).cap = Pow2(WidenStep(kind, c).bits)

\* The Mapped palette that a set of v on the Mapped palette m promotes to
\* Global: m after the widening steps the set takes first.
RECURSIVE OutgoingMapped(_, _)
OutgoingMapped(m, v) ==
    IF MappedIndex(m, v).tag = "Bits" /\ MappedIndex(m, v).n # StateGlobalAt
    THEN OutgoingMapped(StateWiden(m, MappedIndex(m, v).n), v)
    ELSE m

C16_BitAt ==
    (kind = "bits" /\ result.op = "bit_at")
      => (result.ret <=> (args.val % Pow2(args.idx + 1)) >= Pow2(args.idx))

\* C16 witness: bit_at gave true for the top bit of a mask with lower bits
\* clear.
C16_Witness ==
    /\ kind = "bits" /\ result.op = "bit_at"
    /\ args.idx = MaskBits - 1 /\ args.val = Pow2(MaskBits - 1)
    /\ result.ret

\* Whether bit i of the mask m is set, by the rest of m modulo 2^(i+1).
BitSet(m, i) == (m % Pow2(i + 1)) >= Pow2(i)

\* The bytes a section takes in the cursor and in the arena, by the masks.
SectionSize(a, i) ==
    10240 + (IF BitSet(a.sky_light, i) THEN 2048 ELSE 0)
          + (IF BitSet(a.add, i) THEN 2048 ELSE 0)

\* The bytes of the sections the bitmask names among the slots below i.
RECURSIVE SizeBelow(_, _)
SizeBelow(a, i) ==
    IF i = 0 THEN 0
    ELSE SizeBelow(a, i - 1)
           + (IF BitSet(a.bitmask, i - 1) THEN SectionSize(a, i - 1) ELSE 0)

\* Where field f of section i starts: after the sections before it and the
\* fields before it, in the order blocks[4096], metadata[2048], light[2048],
\* sky_light[2048]?, add[2048]?, biomes[2048].
FieldStart(a, i, f) ==
    SizeBelow(a, i)
      + (CASE f = "blocks" -> 0
           [] f = "metadata" -> 4096
           [] f = "light" -> 6144
           [] f = "sky_light" -> 8192
           [] f = "add" -> 8192 + (IF BitSet(a.sky_light, i) THEN 2048 ELSE 0)
           [] f = "biomes" -> SectionSize(a, i) - 2048)

\* Whether section i is to have field f, by the masks.
FieldWanted(a, i, f) ==
    /\ BitSet(a.bitmask, i)
    /\ f = "sky_light" => BitSet(a.sky_light, i)
    /\ f = "add" => BitSet(a.add, i)

\* The bytes field f of section i of the column col views in the heap hp.
FieldBytes(col, hp, i, f) ==
    ReadAt(BufBytes(hp, col.sections[i].ref[f].buf),
           col.sections[i].ref[f].off, FieldLen(f))

\* from_reader returned a column.
FromReaderOk ==
    kind = "column" /\ result.op = "from_reader" /\ result.ok

\* C12: after a successful from_reader, section i is present iff bit i of
\* the bitmask is set, it has sky_light and add iff their mask bits are
\* set, an absent section has nothing whatever the masks say, and every
\* field present holds the bytes of the cursor at its place in the order
\* blocks, metadata, light, sky_light?, add?, biomes, sections in slot order.
C12_FromReaderLayout ==
    FromReaderOk
      => \A i \in SectionSlots :
            /\ column.sections[i].some <=> BitSet(args.bitmask, i)
            /\ \A f \in FieldNames :
                  IF FieldWanted(args, i, f)
                  THEN /\ column.sections[i].ref[f].buf = column.buf
                       /\ FieldBytes(column, heap, i, f)
                            = <<[len |-> FieldLen(f),
                                 src |-> FieldStart(args, i, f)]>>
                  ELSE column.sections[i].ref[f] = NoRef

\* C12 witness: from_reader built the last section with add and sky_light
\* while the first one is absent and has its add bit set.
C12_Witness ==
    /\ FromReaderOk
    /\ column.sections[NumSections - 1].some
    /\ column.sections[NumSections - 1].ref["add"] # NoRef
    /\ column.sections[NumSections - 1].ref["sky_light"] # NoRef
    /\ ~column.sections[0].some
    /\ BitSet(args.add, 0)

\* C11: a reallocate on a column built by from_reader keeps every section
\* at its slot with the same optional fields, every field at the same
\* offset, now inside the new buffer, and with the same bytes; an absent
\* slot stays absent.
C11_ReallocateKeepsSections ==
    [][(/\ kind = "column" /\ args.ctor = "from_reader"
        /\ result'.op = "reallocate" /\ result'.ok)
          => \A i \in SectionSlots :
                /\ column'.sections[i].some = column.sections[i].some
                /\ \A f \in FieldNames :
                      IF column.sections[i].ref[f] = NoRef
                      THEN column'.sections[i].ref[f] = NoRef
                      ELSE /\ column'.sections[i].ref[f].buf = column'.buf
                           /\ column'.sections[i].ref[f].off
                                = column.sections[i].ref[f].off
                           /\ FieldBytes(column', heap', i, f)
                                = FieldBytes(column, heap, i, f)]_vars

\* C11 witness: the second reallocate of a column with two sections, one of
\* them with sky_light and add.
C11_Witness ==
    /\ kind = "column" /\ args.ctor = "from_reader"
    /\ result.op = "reallocate" /\ result.ok /\ result.calls = 2
    /\ column.sections[0].some
    /\ column.sections[NumSections - 1].ref["add"] # NoRef
    /\ column.sections[NumSections - 1].ref["sky_light"] # NoRef

\* Whether the view v and field f of section i of the column col share a
\* byte.
Overlaps(v, col, i, f) ==
    /\ col.sections[i].ref[f] # NoRef
    /\ col.sections[i].ref[f].buf = v.buf
    /\ col.sections[i].ref[f].off < v.off + v.len
    /\ v.off < col.sections[i].ref[f].off + FieldLen(f)

\* C13: reallocate with N > 0 makes the size old_size + N and returns the
\* bytes [old_size, old_size + N) of the new buffer, which no field view
\* shares; a column built by new() ends with size N and no section.
C13_ReallocateTail ==
    [][(kind = "column" /\ result'.op = "reallocate" /\ result'.n > 0)
          => /\ result'.ok
             /\ column'.size = column.size + result'.n
             /\ result'.view = [buf |-> column'.buf, off |-> column.size,
                                len |-> result'.n]
             /\ column'.buf \in 1 .. Len(heap')
             /\ heap'[column'.buf].cap = column'.size
             /\ \A i \in SectionSlots, f \in FieldNames :
                   ~Overlaps(result'.view, column', i, f)
             /\ result.op = "new"
                  => /\ column'.size = result'.n
                     /\ \A i \in SectionSlots : ~column'.sections[i].some]_vars

\* C13 witness: a column with a section was reallocated and the view
\* returned starts where the old buffer ended.
C13_Witness ==
    /\ kind = "column" /\ args.ctor = "from_reader"
    /\ result.op = "reallocate" /\ result.ok
    /\ column.sections[0].some
    /\ result.view.off > 0
    /\ result.view.off + result.view.len = column.size

\* C14: from_reader fails exactly when the data behind the cursor is shorter
\* than the sections the masks name, and then no buffer was allocated and
\* there is no column and no section.
C14_ShortCursor ==
    (kind = "column" /\ result.op = "from_reader")
      => /\ ~result.ok <=> cursor.len < SizeBelow(args, NumSections)
         /\ ~result.ok
              => /\ heap = <<>>
                 /\ column.state = "none"
                 /\ \A i \in SectionSlots : ~column.sections[i].some

\* C14 witness: from_reader failed after it had decoded some fields.
C14_Witness ==
    /\ kind = "column" /\ result.op = "from_reader" /\ ~result.ok
    /\ cursor.pos > 0
    /\ BitSet(args.bitmask, NumSections - 1)

\* The length of the encoding of the states of the section the caller has.
StatesBytes == 1 + Len(args.section.states)

\* C15: encode writes block_count, then states, then biomes; decode of the
\* whole encoding gives the section back and leaves the cursor at its end;
\* decode of a cut encoding fails with the error of the first part that is
\* not whole, block_count, states or biomes.
C15_SectionRoundTrip ==
    /\ (kind = "section" /\ result.op = "encode" /\ args.cut >= 3 + StatesBytes)
         => /\ SubSeq(cursor.data, 1, 2) = EncodeU16(args.section.block_count)
            /\ SubSeq(cursor.data, 3, 2 + StatesBytes)
                 = EncodeStates(args.section.states)
            /\ SubSeq(cursor.data, 3 + StatesBytes, Len(cursor.data))
                 = EncodeBiomes(args.section.biomes)
    /\ (kind = "section" /\ result.op = "decode")
         => IF args.cut >= 3 + StatesBytes
            THEN /\ result.ok
                 /\ result.value = args.section
                 /\ cursor.pos = Len(cursor.data)
            ELSE /\ ~result.ok
                 /\ result.err = IF args.cut < 2 THEN "u16"
                                 ELSE IF args.cut < 2 + StatesBytes THEN "states"
                                 ELSE "biomes"

\* C15 witness: a section with two states, a biome and a block count above
\* one byte came back from decode.
C15_Witness ==
    /\ kind = "section" /\ result.op = "decode" /\ result.ok
    /\ result.value.block_count = 4096
    /\ result.value.states = <<0, 1>>
    /\ result.value.biomes = 1

\* The place of a variant in the order SingleValue, Linear, Mapped, Global.
Rank(p) ==
    CASE p.variant = "SingleValue" -> 0
      [] p.variant = "Linear" -> 1
      [] p.variant = "Mapped" -> 2
      [] OTHER -> 3

\* The bit width of a container: that of its palette, of its packed array
\* when it is Global, 0 when it holds a single value.
Width(p) ==
    CASE p.variant = "SingleValue" -> 0
      [] p.variant = "Global" -> p.data.bits
      [] OTHER -> p.bits

\* C21: over the calls on a state container the variant never moves back in
\* the order SingleValue, Linear, Mapped, Global and the bit width never
\* decreases; a Linear palette has 4 bits and a Mapped one 5 to 8; a set or
\* swap on a Global container leaves it Global, with the value at its entry
\* and the other entries as they were.
C21_VariantForward ==
    [][kind = "state"
         => /\ Rank(c') >= Rank(c)
            /\ Width(c') >= Width(c)
            /\ c'.variant = "Linear" => (c'.bits = 4 /\ c'.data.bits = 4)
            /\ c'.variant = "Mapped"
                 => (c'.bits \in 5 .. 8 /\ c'.data.bits = c'.bits)
            /\ (c.variant = "Global" /\ last'.op \in {"set", "swap"}
                  /\ last'.panic = NoPanic)
                 => /\ c'.variant = "Global"
                    /\ c'.data.bits = c.data.bits
                    /\ GetUnchecked(c', last'.i) = last'.v
                    /\ \A j \in Slots \ {last'.i} :
                          GetUnchecked(c', j) = GetUnchecked(c, j)]_vars

\* C21 witness: a set on a container that was Global already, reached from
\* SingleValue, stored a value never seen before.
C21_Witness ==
    /\ kind = "state" /\ origin.ctor = "new"
    /\ c.variant = "Global"
    /\ last.op = "set" /\ last.panic = NoPanic /\ last.iters = 1
    /\ GetUnchecked(c, last.i) = last.v
    /\ last.v = MaxVal

\* C22: in every state of either container get(i) succeeds for every
\* i < N, every index in the packed array of a Linear or Mapped container is
\* below values.len(), and a set or swap of a state container with i < N
\* did not fail.
C22_GetNeverFails ==
    kind \in {"biome", "state"}
      => /\ \A i \in Slots : Get(c, i).panic = NoPanic
         /\ c.variant \in {"Linear", "Mapped"}
              => \A i \in Slots : PackedGet(c.data, i) < Len(c.values)
         /\ (kind = "state" /\ last.op \in {"set", "swap"} /\ last.i < N)
              => last.panic = NoPanic

\* The promotions a palette has behind it: the iterations of the loop of
\* set that a container starting from SingleValue has spent before it gets
\* to this palette.
Behind(k, p) ==
    CASE p.variant = "SingleValue" -> 0
      [] p.variant = "Linear" -> IF k = "biome" THEN p.bits - 1 ELSE 1
      [] p.variant = "Mapped" -> p.bits - 3
      [] OTHER -> 6

\* The iterations set may take in all: 3 for biome, 7 for state.
MaxIters(k) == IF k = "biome" THEN 3 ELSE 7

\* C23: a set or swap that got past its bounds check took at least one and
\* at most 3 (biome) or 7 (state) iterations of the loop, less the
\* promotions the container had behind it already; it placed the value or
\* failed with the container as it was.
C23_SetTerminates ==
    [][(kind \in {"biome", "state"} /\ last'.op \in {"set", "swap"}
          /\ last'.panic # OutOfBounds /\ last'.iters > 0)
         => /\ last'.iters <= MaxIters(kind)
            /\ last'.iters <= MaxIters(kind) - Behind(kind, c)
            /\ last'.panic = NoPanic \/ c' = c]_vars

\* C23 witness: one set took a full Mapped palette through every width to
\* Global, in five iterations.
C23_Witness ==
    /\ kind = "state"
    /\ last.op = "set" /\ last.panic = NoPanic
    /\ last.iters = 5
    /\ c.variant = "Global"

\* The field views of a column: the pairs of a slot and a field present.
Views(col) ==
    {v \in SectionSlots \X FieldNames : col.sections[v[1]].ref[v[2]] # NoRef}

\* Whether two field views of a column share a byte.
ViewsOverlap(col, v, w) ==
    /\ col.sections[v[1]].ref[v[2]].off
         < col.sections[w[1]].ref[w[2]].off + FieldLen(w[2])
    /\ col.sections[w[1]].ref[w[2]].off
         < col.sections[v[1]].ref[v[2]].off + FieldLen(v[2])

\* C24: in every state of a column built by from_reader and reallocated any
\* number of times, every field view lies inside [0, size) of the buffer the
\* column owns, no two views overlap, and the views are packed from offset 0
\* in slot order, fields in the order of the section; directly after
\* from_reader the size is the sum of the section sizes by the masks, which
\* is also what the cursor has advanced by.
C24_ArenaLayout ==
    (kind = "column" /\ args.ctor = "from_reader" /\ column.state = "live")
      => /\ \A v \in Views(column) :
               /\ column.sections[v[1]].ref[v[2]].buf = column.buf
               /\ column.buf \in 1 .. Len(heap)
               /\ heap[column.buf].live
               /\ heap[column.buf].cap = column.size
               /\ column.sections[v[1]].ref[v[2]].off >= 0
               /\ column.sections[v[1]].ref[v[2]].off + FieldLen(v[2])
                    <= column.size
               /\ column.sections[v[1]].ref[v[2]].off
                    = FieldStart(args, v[1], v[2])
         /\ \A v, w \in Views(column) : v # w => ~ViewsOverlap(column, v, w)
         /\ Views(column)
              = {v \in SectionSlots \X FieldNames : FieldWanted(args, v[1], v[2])}
         /\ column.size >= SizeBelow(args, NumSections)
         /\ result.op = "from_reader"
              => /\ column.size = SizeBelow(args, NumSections)
                 /\ cursor.pos = column.size

\* C24 witness: a column of two sections, the first with sky_light only and
\* the last with add only, was reallocated once.
C24_Witness ==
    /\ kind = "column" /\ args.ctor = "from_reader" /\ column.state = "live"
    /\ result.op = "reallocate" /\ result.ok /\ result.calls = 1
    /\ column.sections[0].ref["sky_light"] # NoRef
    /\ column.sections[0].ref["add"] = NoRef
    /\ column.sections[NumSections - 1].ref["add"] # NoRef
    /\ column.sections[NumSections - 1].ref["sky_light"] = NoRef
    /\ column.size > SizeBelow(args, NumSections)

\* The buffers of the heap hp that have not been released.
Live(hp) == {b \in 1 .. Len(hp) : hp[b].live}

\* Whether the pointer is that of a buffer of the heap.
IsBuffer(hp, ptr) == ptr \in 1 .. Len(hp)

\* The heap hp as the column col must leave it: every buffer released at
\* most once, with the size it was allocated with; the only buffer not
\* released is the one a live column holds; no buffer is left once the
\* column is dropped.
HeapOwned(col, hp) ==
    /\ \A b \in 1 .. Len(hp) :
          /\ hp[b].frees <= 1
          /\ hp[b].live <=> hp[b].frees = 0
          /\ ~hp[b].live => hp[b].freed = hp[b].cap
    /\ Cardinality(Live(hp)) <= 1
    /\ col.state = "none" => hp = <<>>
    /\ col.state = "live"
         => Live(hp) = IF IsBuffer(hp, col.buf) THEN {col.buf} ELSE {}
    /\ col.state = "dropped" => Live(hp) = {}

\* C25: a column owns at most one live buffer and every buffer it allocated
\* is released exactly once: reallocate allocates one buffer, installs it
\* and releases the old one with the old size; drop releases the current
\* one; a column built by new() and never reallocated releases nothing.
C25_OneBufferReleasedOnce ==
    [][kind = "column"
         => /\ HeapOwned(column', heap')
            /\ (result'.op = "reallocate" /\ result'.ok)
                 => /\ Len(heap') = Len(heap) + 1
                    /\ column'.buf = Len(heap')
                    /\ heap'[column'.buf].cap = column'.size
                    /\ IsBuffer(heap, column.buf)
                         => /\ heap[column.buf].live
                            /\ heap'[column.buf].frees = 1
                            /\ heap'[column.buf].freed = column.size
            /\ result'.op = "drop"
                 => /\ Len(heap') = Len(heap)
                    /\ IsBuffer(heap, column.buf)
                         => /\ heap[column.buf].live
                            /\ heap'[column.buf].frees = 1
                            /\ heap'[column.buf].freed = column.size
            /\ (args.ctor = "new" /\ result'.calls = 0) => heap' = <<>>]_vars

\* C25 witness: a column with a section was reallocated twice and dropped,
\* and its three buffers are released.
C25_Witness ==
    /\ kind = "column" /\ args.ctor = "from_reader"
    /\ column.state = "dropped"
    /\ result.op = "drop" /\ result.calls = 2
    /\ column.sections[0].some
    /\ Len(heap) = 3
    /\ \A b \in 1 .. Len(heap) : heap[b].frees = 1

====
